---- MODULE Spec2Model ----
(***************************************************************************)
(* The editing engine of nmeylan/text-editor (src/src/text_editor.rs):     *)
(* line buffer, cursor, selection, debounced undo history, bracket         *)
(* matching over the visible window with the highlights it paints, and    *)
(* the vertical scroll that follows the cursor, driven by the per-frame    *)
(* TextEditor::ui.  The viewport is wider than every line, so that the     *)
(* horizontal scroll stays at 0.                                           *)
(*                                                                         *)
(* A character is a one-character string, a line (a Rust String) is a      *)
(* sequence of characters.  Rust's String::len is the BYTE length, so each *)
(* character carries its UTF-8 width.  A panic (index out of range, slice  *)
(* off a character boundary, unwrap of None) sets `fault`; the process has *)
(* then aborted and nothing more happens.                                  *)
(***************************************************************************)
EXTENDS Integers, Sequences, FiniteSets, TLC

\* ---------------------------------------------------------------- bounds
MaxEvents == 3        \* input events (keys, text, pointer handlers) per run
MaxFrames == 3        \* calls of TextEditor::ui per run
MaxKeyEvents == 4     \* key and text events per keyboard session
MaxKeyFrames == 3     \* calls of TextEditor::ui per keyboard session
MaxCodeEvents == 3    \* key and text events per session on a source file
MaxCodeFrames == 3    \* calls of TextEditor::ui per session on a source file
MaxScrollEvents == 2  \* events per session with the pointer on a scrolled file
MaxScrollFrames == 3  \* calls of TextEditor::ui per such session
MaxLiveEvents == 2    \* key and text events per session whose frames go on
MaxLiveTime == 6      \* seconds on the clock when such a session's frames stop
MaxTypingEvents == 4  \* text events, arrow keys and undos per typing session
MaxTypingFrames == 5  \* calls of TextEditor::ui per typing session

\* ------------------------------------------------------ program constants
InactivityPeriod == 2  \* seconds; time advances in whole seconds
line_height == 2       \* the font's line height, in pixels
char_width == 1        \* the font's advance width, in pixels

\* ------------------------------------------------------------- characters
\* WideChar stands for a character of two UTF-8 bytes, such as e-acute.
WideChar == "E"
ByteWidth(c) == IF c = WideChar THEN 2 ELSE 1

Min(a, b) == IF a < b THEN a ELSE b
Max(a, b) == IF a > b THEN a ELSE b

\* Option<T>: None is the empty sequence, Some(v) the one-element sequence.
None == <<>>
Some(v) == <<v>>
IsSome(o) == o # <<>>
Unwrap(o) == o[1]

Pos(x, y) == [x |-> x, y |-> y]

\* ---------------------------------------------------------------- strings
RECURSIVE ByteLen(_)
ByteLen(line) ==
  IF line = <<>> THEN 0 ELSE ByteWidth(Head(line)) + ByteLen(Tail(line))

CharCount(line) == Len(line)

Take(line, n) == SubSeq(line, 1, Min(n, Len(line)))
Drop(line, n) == SubSeq(line, Min(n, Len(line)) + 1, Len(line))

\* egui's str::byte_index_from_char_index: the byte offset of the char_index-th
\* character, the byte length when there is no such character.
byte_index_from_char_index(line, char_index) == ByteLen(Take(line, char_index))

\* Whether byte offset b lies on a character boundary of the line.
IsCharBoundary(line, b) == \E k \in 0..Len(line) : ByteLen(Take(line, k)) = b

\* The character index of a byte offset that lies on a boundary.
CharIndexOfByte(line, b) ==
  CHOOSE k \in 0..Len(line) : ByteLen(Take(line, k)) = b

\* &line[b1..b2] panics unless both offsets are boundaries and b1 <= b2.
SliceOk(line, b1, b2) ==
  b1 <= b2 /\ IsCharBoundary(line, b1) /\ IsCharBoundary(line, b2)
Slice(line, b1, b2) ==
  SubSeq(line, CharIndexOfByte(line, b1) + 1, CharIndexOfByte(line, b2))

\* egui's TextBuffer::insert_text: inserts at a CHARACTER index, clamped.
insert_text(line, text, char_index) ==
  Take(line, char_index) \o text \o Drop(line, char_index)

\* egui's TextBuffer::delete_char_range(a..b), a <= b: character indices, clamped.
delete_char_range(line, a, b) == Take(line, a) \o Drop(line, b)

\* String::insert(idx, ch): a BYTE index, which must be a character boundary.
StringInsertOk(line, idx) == IsCharBoundary(line, idx)
StringInsert(line, idx, ch) ==
  LET k == CharIndexOfByte(line, idx) IN Take(line, k) \o <<ch>> \o Drop(line, k)

\* Vec::remove(i) and Vec::insert(i, v), 0-based.
VecRemove(v, i) == SubSeq(v, 1, i) \o SubSeq(v, i + 2, Len(v))
VecInsert(v, i, e) == SubSeq(v, 1, i) \o <<e>> \o SubSeq(v, i + 1, Len(v))
\* v[i], 0-based
At(v, i) == v[i + 1]
SetAt(v, i, e) == [v EXCEPT ![i + 1] = e]


\* ------------------------------------------------------------ editor state
\* The fields of TextEditor (text_editor.rs:25-56) the engine reads and writes.
VARIABLES
  lines,                  \* Vec<String>
  lines_count,            \* usize, refreshed at the start of ui() only
  cursor_index,           \* Pos<usize>
  start_dragged_index,    \* Option<Pos<usize>>
  stop_dragged_index,     \* Option<Pos<usize>>
  selection_start_index,  \* Option<Pos<usize>>
  selection_end_index,    \* Option<Pos<usize>>
  unsaved_stated,         \* Option<UnsavedState>
  history,                \* Vec<State>
  scroll_offset,          \* Pos<f32>, in pixels
  has_pressed_arrow_key,  \* bool: the next ui() scrolls the cursor into view
  opening_char,           \* Option<char>
  closing_char,           \* Option<char>
  opening_char_index,     \* Option<Pos<usize>>: where the opening bracket is
  closing_char_index,     \* Option<Pos<usize>>: the column AFTER the closing bracket
  fault,                  \* the process panicked
  time,                   \* ui.input().time of the current frame
  stage,                  \* where the current ui() call stands
  interact_pos,           \* the frame's pointer position, once a handler read it
  lastEvent,              \* the handler that ran last
  lastText,               \* the text of the Event::Text handled last, if it was one
  eventsLeft,             \* input events the run may still handle
  framesLeft,             \* frames the run may still begin
  batchStart,             \* history variable: the pending batch's origin
  entryStart              \* history variable: one record per HistoryEntry

edVars == <<lines, lines_count, cursor_index, start_dragged_index,
            stop_dragged_index, selection_start_index, selection_end_index,
            unsaved_stated, history, scroll_offset, has_pressed_arrow_key,
            opening_char, closing_char, opening_char_index, closing_char_index,
            fault>>
vars == <<lines, lines_count, cursor_index, start_dragged_index,
          stop_dragged_index, selection_start_index, selection_end_index,
          unsaved_stated, history, scroll_offset, has_pressed_arrow_key,
          opening_char, closing_char, opening_char_index, closing_char_index,
          fault,
          time, stage, interact_pos, lastEvent, lastText, eventsLeft,
          framesLeft, batchStart, entryStart>>

\* The editor as one record, so that handlers compose as the code calls them.
Ed ==
  [lines |-> lines, lines_count |-> lines_count, cursor_index |-> cursor_index,
   start_dragged_index |-> start_dragged_index,
   stop_dragged_index |-> stop_dragged_index,
   selection_start_index |-> selection_start_index,
   selection_end_index |-> selection_end_index,
   unsaved_stated |-> unsaved_stated, history |-> history,
   scroll_offset |-> scroll_offset,
   has_pressed_arrow_key |-> has_pressed_arrow_key,
   opening_char |-> opening_char, closing_char |-> closing_char,
   opening_char_index |-> opening_char_index,
   closing_char_index |-> closing_char_index, fault |-> fault]

Panic(s) == [s EXCEPT !.fault = TRUE]

\* ---------------------------------------------------------------- brackets
OpeningChars == {"{", "(", "["}
ClosingChars == {"}", ")", "]"}

matching_closing_char(opening) ==
  CASE opening = "{" -> "}"
    [] opening = "(" -> ")"
    [] opening = "[" -> "]"
    [] OTHER -> opening

matching_opening_char(closing) ==
  CASE closing = "}" -> "{"
    [] closing = ")" -> "("
    [] closing = "]" -> "["
    [] OTHER -> closing

\* The four bracket cells set to None.
NoBracket(s) ==
  [s EXCEPT !.opening_char = None, !.opening_char_index = None,
            !.closing_char = None, !.closing_char_index = None]

\* ------------------------------------------------------------------ cursor
\* The character left of the cursor decides the bracket cells.
after_cursor_position_change(s) ==
  IF s.fault THEN s
  ELSE IF s.cursor_index.x = 0 THEN NoBracket(s)
  ELSE IF s.cursor_index.y >= Len(s.lines) THEN Panic(s)
  ELSE
    LET line == At(s.lines, s.cursor_index.y)
        maybe_char == IF s.cursor_index.x - 1 < CharCount(line)
                      THEN Some(At(line, s.cursor_index.x - 1)) ELSE None
    IN IF IsSome(maybe_char) /\ Unwrap(maybe_char) \in OpeningChars
       THEN [s EXCEPT !.opening_char = maybe_char,
                      !.opening_char_index =
                         Some(Pos(s.cursor_index.x - 1, s.cursor_index.y)),
                      !.closing_char = None, !.closing_char_index = None]
       ELSE IF IsSome(maybe_char) /\ Unwrap(maybe_char) \in ClosingChars
       THEN [s EXCEPT !.opening_char = None, !.opening_char_index = None,
                      !.closing_char = maybe_char,
                      !.closing_char_index = Some(s.cursor_index)]
       ELSE NoBracket(s)

sanitize_cursor_position(s) ==
  IF s.fault THEN s
  ELSE
    LET y1 == IF s.cursor_index.y >= s.lines_count
              THEN s.lines_count - 1 ELSE s.cursor_index.y
    IN IF y1 < 0 \/ y1 >= Len(s.lines) THEN Panic(s)
       ELSE LET line_len == ByteLen(At(s.lines, y1))
            IN [s EXCEPT !.cursor_index =
                  Pos(IF s.cursor_index.x > line_len THEN line_len
                      ELSE s.cursor_index.x, y1)]

set_cursor_y(s, new_value) ==
  IF s.fault \/ s.cursor_index.y = new_value THEN s
  ELSE after_cursor_position_change(
         sanitize_cursor_position([s EXCEPT !.cursor_index.y = new_value]))

set_cursor_x(s, new_value) ==
  IF s.fault \/ s.cursor_index.x = new_value THEN s
  ELSE after_cursor_position_change(
         sanitize_cursor_position([s EXCEPT !.cursor_index.x = new_value]))

\* --------------------------------------------------------------- selection
reset_selection(s) ==
  [s EXCEPT !.selection_start_index = None, !.selection_end_index = None,
            !.start_dragged_index = None, !.stop_dragged_index = None]

has_selection(s) ==
  IsSome(s.selection_start_index) /\ IsSome(s.selection_end_index)

is_single_line_selection(s) ==
  has_selection(s)
  /\ Unwrap(s.selection_start_index).y = Unwrap(s.selection_end_index).y

is_two_lines_selection(s) ==
  has_selection(s)
  /\ Unwrap(s.selection_start_index).y + 1 = Unwrap(s.selection_end_index).y

\* Variant of OrderedDrag that orders the two positions by line only.
OrderedDragByLine(a, b) == IF a.y > b.y THEN <<b, a>> ELSE <<a, b>>

\* The (start, end) pair set_selection derives from the drag anchor and the
\* drag endpoint, before it clamps them into the document.
OrderedDrag(a, b) ==
  LET byLine == IF a.y > b.y THEN <<b, a>> ELSE <<a, b>>
      st == byLine[1]
      en == byLine[2]
  IN IF st.y = en.y /\ st.x > en.x
     THEN <<Pos(en.x, st.y), Pos(st.x, en.y)>>
     ELSE <<st, en>>

set_selection(s) ==
  IF s.fault \/ ~IsSome(s.start_dragged_index) \/ ~IsSome(s.stop_dragged_index)
  THEN s
  ELSE
    LET o == OrderedDrag(Unwrap(s.start_dragged_index),
                         Unwrap(s.stop_dragged_index))
        sy == IF o[1].y >= s.lines_count THEN s.lines_count - 1 ELSE o[1].y
        ey == IF o[2].y >= s.lines_count THEN s.lines_count - 1 ELSE o[2].y
    IN IF sy < 0 \/ sy >= Len(s.lines) \/ ey < 0 \/ ey >= Len(s.lines)
       THEN Panic(s)
       ELSE
         LET sl == ByteLen(At(s.lines, sy))
             el == ByteLen(At(s.lines, ey))
         IN [s EXCEPT
               !.selection_start_index = Some(Pos(Min(o[1].x, sl), sy)),
               !.selection_end_index = Some(Pos(Min(o[2].x, el), ey))]

\* Variant of SelectionTextEnd that starts after the selection's last line.
SelectionTextAfterEnd(ls, end_y) == SubSeq(ls, end_y + 2, Len(ls))

\* key_press_on_selection, line 1186: text_end, the lines from the selection's
\* last line on; the first of them is then overwritten by the joined line.
SelectionTextEnd(ls, end_y) == SubSeq(ls, end_y + 1, Len(ls))

key_press_on_selection(s, text_to_insert) ==
  IF s.fault THEN s
  ELSE IF ~IsSome(s.selection_start_index) \/ ~IsSome(s.selection_end_index)
  THEN Panic(s)      \* lines 1154-1155: unwrap of None
  ELSE
    LET st == Unwrap(s.selection_start_index)
        en == Unwrap(s.selection_end_index)
        n == Len(s.lines)
        edited ==
          IF is_single_line_selection(s) THEN
            IF st.y >= n THEN Panic(s)
            ELSE LET line == At(s.lines, st.y)
                 IN [s EXCEPT !.lines = SetAt(s.lines, st.y,
                       Take(line, st.x) \o text_to_insert \o Drop(line, en.x))]
          ELSE IF is_two_lines_selection(s) THEN
            IF st.y >= n \/ st.y >= n - 1 THEN Panic(s)
            ELSE LET new_line_start == Take(At(s.lines, st.y), st.x)
                     removed == VecRemove(s.lines, st.y)
                     new_line_end == Drop(At(removed, st.y), en.x)
                 IN [s EXCEPT !.lines = SetAt(removed, st.y,
                       new_line_start \o text_to_insert \o new_line_end)]
          ELSE
            IF st.y >= n \/ en.y >= n THEN Panic(s)
            ELSE LET new_line_start == Take(At(s.lines, st.y), st.x)
                     new_line_end == Drop(At(s.lines, en.y), en.x)
                     joined == SubSeq(s.lines, 1, st.y)
                               \o SelectionTextEnd(s.lines, en.y)
                 IN [s EXCEPT !.lines = SetAt(joined, st.y,
                       new_line_start \o text_to_insert \o new_line_end)]
    IN reset_selection(set_cursor_x(set_cursor_y(edited, st.y), st.x))


\* ----------------------------------------------------------------- history
\* SingleAction (text_editor.rs:58-64), one record shape for the four variants:
\* AddChar{start_pos, char: String}, RemoveChar{start_pos, char}, RemoveLine(y),
\* NewLine(pos).  Unused fields hold 0 and the empty text.
AddChar(pos, text) == [kind |-> "AddChar", x |-> pos.x, y |-> pos.y, char |-> text]
RemoveChar(pos, c) == [kind |-> "RemoveChar", x |-> pos.x, y |-> pos.y, char |-> <<c>>]
RemoveLine(line_index) == [kind |-> "RemoveLine", x |-> 0, y |-> line_index, char |-> <<>>]
NewLine(pos) == [kind |-> "NewLine", x |-> pos.x, y |-> pos.y, char |-> <<>>]

init_unsaved_state(s, now) ==
  [s EXCEPT !.unsaved_stated =
     Some([last_activity_at |-> now, cursor_index |-> s.cursor_index,
           actions |-> <<>>])]

\* The first loop of flush_unsaved_state: <<min_index, max_index>>.
RECURSIVE ScanActions(_, _, _, _)
ScanActions(actions, min_index, max_index, added_lines) ==
  IF actions = <<>> THEN <<min_index, max_index + added_lines>>
  ELSE LET a == Head(actions)
       IN ScanActions(Tail(actions), Min(min_index, a.y), Max(max_index, a.y),
                      added_lines + (IF a.kind = "NewLine" THEN 1 ELSE 0))

\* The inverse of one action on the working copy w = [lines, fault].
RemoveCharInsertIndex(a) == Max(a.x, 1) - 1

InverseAction(w, a, min_index) ==
  LET n == Len(w.lines)
      y == a.y - min_index
      bad == [w EXCEPT !.fault = TRUE]
  IN IF w.fault THEN w
     ELSE IF a.kind = "AddChar" THEN
       IF y >= n THEN bad
       ELSE [w EXCEPT !.lines =
               SetAt(w.lines, y, delete_char_range(At(w.lines, y), a.x, a.x + 1))]
     ELSE IF a.kind = "RemoveChar" THEN
       IF y >= n \/ ~StringInsertOk(At(w.lines, y), RemoveCharInsertIndex(a))
       THEN bad
       ELSE [w EXCEPT !.lines =
               SetAt(w.lines, y,
                     StringInsert(At(w.lines, y), RemoveCharInsertIndex(a),
                                  a.char[1]))]
     ELSE IF a.kind = "RemoveLine" THEN
       IF y > n THEN bad
       ELSE [w EXCEPT !.lines = VecInsert(w.lines, y, <<>>)]
     ELSE \* NewLine
       IF y + 1 >= n THEN bad
       ELSE [w EXCEPT !.lines =
               VecRemove(SetAt(w.lines, y, At(w.lines, y) \o At(w.lines, y + 1)),
                         y + 1)]

\* The second loop: the actions popped from the back, each one inverted.
RECURSIVE ReplayInverse(_, _, _)
ReplayInverse(w, actions, min_index) ==
  IF actions = <<>> THEN w
  ELSE ReplayInverse(InverseAction(w, actions[Len(actions)], min_index),
                     SubSeq(actions, 1, Len(actions) - 1), min_index)

\* AddText when the snapshot taken at flush has at most as many lines as the
\* replayed one (the code's before_lines_count <= after_lines_count).
BulkKind(before_lines_count, after_lines_count) ==
  IF before_lines_count <= after_lines_count THEN "AddText" ELSE "RemoveText"

FlushDue(s, now) ==
  IsSome(s.unsaved_stated)
  /\ now - Unwrap(s.unsaved_stated).last_activity_at >= InactivityPeriod

\* flush_unsaved_state: [ed |-> the editor after it, state |-> Option<State>].
flush_unsaved_state(s, now) ==
  IF s.fault \/ ~FlushDue(s, now) THEN [ed |-> s, state |-> None]
  ELSE
    LET u == Unwrap(s.unsaved_stated)
        n == Len(s.lines)
        mm == ScanActions(u.actions, n, 0, 0)
        min_index == mm[1]
        max_index == mm[2]
        snapshot == SubSeq(s.lines, min_index + 1, Min(n - 1, max_index) + 1)
        w == ReplayInverse([lines |-> snapshot, fault |-> FALSE],
                           u.actions, min_index)
        cleared == [s EXCEPT !.unsaved_stated = None]
    IN IF n = 0 \/ min_index > Min(n - 1, max_index) + 1 \/ w.fault
       THEN [ed |-> Panic(cleared), state |-> None]
       ELSE [ed |-> cleared,
             state |-> Some([created_at |-> u.last_activity_at,
                             cursor_index |-> u.cursor_index,
                             kind |-> BulkKind(Len(snapshot), Len(w.lines)),
                             start_index |-> min_index,
                             end_index |-> max_index,
                             lines |-> w.lines])]

feed_history(s, now) ==
  LET f == flush_unsaved_state(s, now)
  IN IF IsSome(f.state)
     THEN [f.ed EXCEPT !.history = Append(f.ed.history, Unwrap(f.state))]
     ELSE f.ed

push_action_to_unsaved_state(s, now, action) ==
  IF s.fault THEN s
  ELSE
    LET s1 == IF IsSome(s.unsaved_stated) THEN s ELSE init_unsaved_state(s, now)
        u == Unwrap(s1.unsaved_stated)
        s2 == [s1 EXCEPT !.unsaved_stated =
                 Some([u EXCEPT !.actions = Append(u.actions, action)])]
    IN IF now - u.last_activity_at >= InactivityPeriod
       THEN feed_history(s2, now)
       ELSE [s2 EXCEPT !.unsaved_stated =
               Some([Unwrap(s2.unsaved_stated) EXCEPT !.last_activity_at = now])]

\* Variant of Undo that unwraps history.pop() without looking at it.
UndoUnwrapped(s) ==
  IF s.fault THEN s
  ELSE IF s.history = <<>> THEN Panic(s)
  ELSE [s EXCEPT !.history = SubSeq(s.history, 1, Len(s.history) - 1),
                 !.cursor_index = s.history[Len(s.history)].cursor_index]

\* Key::Z with ctrl, once history.pop() returned Some(state).
UndoState(s) ==
    LET state == s.history[Len(s.history)]
        popped == [s EXCEPT !.history = SubSeq(s.history, 1, Len(s.history) - 1)]
        n == Len(s.lines)
        restored ==
          IF state.kind = "AddText" THEN
            LET range_end == Min(n, state.end_index + 1)
            IN IF state.start_index > range_end THEN Panic(popped)
               ELSE [popped EXCEPT !.lines =
                       SubSeq(s.lines, 1, state.start_index) \o state.lines
                       \o SubSeq(s.lines, range_end + 1, n)]
          ELSE
            IF state.start_index > n \/ n = 0 THEN Panic(popped)
            ELSE [popped EXCEPT !.lines =
                    SubSeq(s.lines, 1, state.start_index) \o state.lines
                    \o (IF state.end_index + 1 <= n - 1
                        THEN SubSeq(s.lines, state.end_index + 2, n)
                        ELSE <<>>)]
    IN IF restored.fault THEN restored
       ELSE [restored EXCEPT !.cursor_index = state.cursor_index]

\* Variant of Undo that reads the last entry of history and leaves it there.
UndoKeepingEntry(s) ==
  IF s.fault \/ s.history = <<>> THEN s
  ELSE [UndoState(s) EXCEPT !.history = s.history]

\* Key::Z with ctrl: nothing happens when history.pop() returns None.
Undo(s) ==
  IF s.fault \/ s.history = <<>> THEN s ELSE UndoState(s)


\* --------------------------------------------------------- buffer mutation
remove_char_at(s, pos) ==
  IF s.fault THEN s
  ELSE IF pos.y >= Len(s.lines) THEN Panic(s)
  ELSE [s EXCEPT !.lines =
          SetAt(s.lines, pos.y, delete_char_range(At(s.lines, pos.y), pos.x, pos.x + 1))]

insert_text_at(s, text_to_insert, pos) ==
  IF s.fault THEN s
  ELSE IF pos.y >= Len(s.lines) THEN Panic(s)
  ELSE [s EXCEPT !.lines =
          SetAt(s.lines, pos.y, insert_text(At(s.lines, pos.y), text_to_insert, pos.x))]

\* -------------------------------------------------------------- key events
\* Event::Text (handle_key_events)
OnText(s, now, text_to_insert) ==
  LET s1 == IF has_selection(s) THEN key_press_on_selection(s, text_to_insert)
            ELSE insert_text_at(s, text_to_insert, s.cursor_index)
      s2 == push_action_to_unsaved_state(s1, now,
              AddChar(s1.cursor_index, text_to_insert))
  IN set_cursor_x(s2, s2.cursor_index.x + 1)

\* Key::ArrowDown | Key::ArrowUp
OnArrowVertical(s, down, shift) ==
  LET s0 == IF shift
            THEN IF IsSome(s.start_dragged_index) THEN s
                 ELSE [s EXCEPT !.start_dragged_index = Some(s.cursor_index)]
            ELSE reset_selection(s)
      s1 == [s0 EXCEPT !.has_pressed_arrow_key = TRUE]
      s2 == IF down THEN set_cursor_y(s1, s1.cursor_index.y + 1)
            ELSE IF s1.cursor_index.y > 0
                 THEN set_cursor_y(s1, s1.cursor_index.y - 1)
                 ELSE s1
  IN IF shift /\ ~s2.fault
     THEN set_selection([s2 EXCEPT !.stop_dragged_index = Some(s2.cursor_index)])
     ELSE s2

\* Key::ArrowLeft | Key::ArrowRight
OnArrowHorizontal(s, right, shift) ==
  LET s0 == IF shift
            THEN IF IsSome(s.start_dragged_index) THEN s
                 ELSE [s EXCEPT !.start_dragged_index = Some(s.cursor_index)]
            ELSE reset_selection(s)
      s1 == [s0 EXCEPT !.has_pressed_arrow_key = TRUE]
      s2 == IF right THEN set_cursor_x(s1, s1.cursor_index.x + 1)
            ELSE IF s1.cursor_index.x > 0
                 THEN set_cursor_x(s1, s1.cursor_index.x - 1)
                 ELSE s1
  IN IF shift /\ ~s2.fault
     THEN set_selection([s2 EXCEPT !.stop_dragged_index = Some(s2.cursor_index)])
     ELSE s2

\* Key::Backspace
OnBackspace(s, now) ==
  LET c == s.cursor_index
  IN IF c.y >= Len(s.lines) THEN Panic(s)
     ELSE
       LET line == At(s.lines, c.y)
           line_len == ByteLen(line)
       IN IF has_selection(s) THEN key_press_on_selection(s, <<>>)
          ELSE IF line_len > 0 /\ c.x > 0 THEN
            IF c.x - 1 >= CharCount(line) THEN Panic(s)
            ELSE
              LET s1 == push_action_to_unsaved_state(s, now,
                          RemoveChar(c, At(line, c.x - 1)))
                  s2 == set_cursor_x(s1, s1.cursor_index.x - 1)
              IN remove_char_at(s2, s2.cursor_index)
          ELSE IF c.x = 0 /\ c.y > 0 THEN
            LET s1 == push_action_to_unsaved_state(s, now, RemoveLine(c.y))
                previous_line_len == ByteLen(At(s.lines, c.y - 1))
                merged == SetAt(VecRemove(s.lines, c.y), c.y - 1,
                                At(s.lines, c.y - 1) \o line)
                s2 == [s1 EXCEPT !.lines = merged]
                s3 == set_cursor_y(s2, s2.cursor_index.y - 1)
            IN set_cursor_x(s3, previous_line_len)
          ELSE s

\* Variant of DeleteRemovesLine without the test for the last line.
DeleteRemovesAnyEmptyLine(line_len, y, n) == line_len = 0

\* Key::Delete, line 602: an empty line is removed unless it is the last one.
DeleteRemovesLine(line_len, y, n) == line_len = 0 /\ y + 1 < n

\* Key::Delete
OnDelete(s, now) ==
  LET c == s.cursor_index
      n == Len(s.lines)
  IN IF c.y >= n THEN Panic(s)
     ELSE
       LET line == At(s.lines, c.y)
           line_len == ByteLen(line)
           x_index == byte_index_from_char_index(line, c.x)
       IN IF has_selection(s) THEN key_press_on_selection(s, <<>>)
          ELSE IF line_len > x_index THEN
            LET s1 == push_action_to_unsaved_state(s, now,
                        RemoveChar(c, At(line, c.x)))
            IN remove_char_at(s1, s1.cursor_index)
          ELSE IF DeleteRemovesLine(line_len, c.y, n) THEN
            LET s1 == push_action_to_unsaved_state(s, now, RemoveLine(c.y))
                s2 == [s1 EXCEPT !.lines = VecRemove(s.lines, c.y)]
            IN set_cursor_y(s2, s2.cursor_index.y)
          ELSE IF line_len = x_index /\ c.y + 1 < n THEN
            LET s1 == push_action_to_unsaved_state(s, now, RemoveLine(c.y + 1))
            IN [s1 EXCEPT !.lines =
                  SetAt(VecRemove(s.lines, c.y + 1), c.y,
                        line \o At(s.lines, c.y + 1))]
          ELSE s

\* Key::Enter
OnEnter(s, now) ==
  IF has_selection(s) THEN key_press_on_selection(s, <<>>)
  ELSE
    LET c == s.cursor_index
    IN IF c.y >= Len(s.lines) THEN Panic(s)
       ELSE
         LET line == At(s.lines, c.y)
             split == VecInsert(SetAt(s.lines, c.y, Take(line, c.x)),
                                c.y + 1, Drop(line, c.x))
             s1 == push_action_to_unsaved_state(
                     [s EXCEPT !.lines = split, !.has_pressed_arrow_key = TRUE],
                     now, NewLine(c))
             s2 == set_cursor_y(s1, s1.cursor_index.y + 1)
         IN set_cursor_x(s2, 0)

\* Key::A with ctrl
OnSelectAll(s) ==
  LET y_index == Len(s.lines) - 1
  IN IF y_index < 0 THEN Panic(s)
     ELSE set_selection(
            [s EXCEPT !.start_dragged_index = Some(Pos(0, 0)),
                      !.stop_dragged_index =
                        Some(Pos(CharCount(At(s.lines, y_index)), y_index))])

\* ---------------------------------------------------------- pixel mapping
x_to_index(s, x) == (2 * x + s.scroll_offset.x) \div (2 * char_width)

line_index_from_line_y(s, line_y) == (line_y + s.scroll_offset.y) \div line_height

\* Variant of y_to_index that keeps the line number, one more than the index.
YToLineNumber(s, y) ==
  line_index_from_line_y(s, ((y \div line_height) + 1) * line_height)

y_to_index(s, y) ==
  LET line_number == (y \div line_height) + 1
  IN line_index_from_line_y(s, line_number * line_height) - 1

\* --------------------------------------------------------- pointer events
WordChars == {"a", "b", "c", "d", "X", "Y", WideChar, "_", "-"}
is_char_non_part_of_word(c) == c \notin WordChars

on_click(s, p) ==
  LET s1 == set_cursor_x(s, x_to_index(s, p.x))
      s2 == set_cursor_y(s1, y_to_index(s1, p.y))
  IN IF s2.fault THEN s2 ELSE reset_selection(s2)

\* The word bounds on_double_click's loop computes: <<start_index, end_index>>.
RECURSIVE WordBounds(_, _, _, _)
WordBounds(line, x_index, i, start_index) ==
  IF i >= CharCount(line) THEN <<start_index, 0>>
  ELSE IF is_char_non_part_of_word(At(line, i))
       THEN IF i >= x_index THEN <<start_index, i>>
            ELSE WordBounds(line, x_index, i + 1, i + 1)
       ELSE WordBounds(line, x_index, i + 1, start_index)

on_double_click(s, p) ==
  IF s.fault THEN s
  ELSE
    LET y_index == y_to_index(s, p.y)
    IN IF y_index >= Len(s.lines) THEN Panic(s)
       ELSE
         LET line == At(s.lines, y_index)
             x_index == x_to_index(s, p.x)
             wb == WordBounds(line, x_index, 0, 0)
             start_index == wb[1]
             end_index == IF wb[2] = 0 THEN ByteLen(line) ELSE wb[2]
         IN IF end_index < start_index
               \/ (end_index - start_index > 1
                   /\ ~SliceOk(line, start_index, end_index))
            THEN Panic(s)
            ELSE set_cursor_x(
                   [s EXCEPT
                      !.selection_start_index = Some(Pos(start_index, y_index)),
                      !.selection_end_index = Some(Pos(end_index, y_index))],
                   end_index)

on_drag_start(s, p) ==
  IF s.fault THEN s
  ELSE [s EXCEPT
          !.start_dragged_index = Some(Pos(x_to_index(s, p.x), y_to_index(s, p.y))),
          !.stop_dragged_index = None]

\* Variant of on_drag that arms the scroll into view, as the arrow keys do.
OnDragArming(s, p) ==
  IF s.fault THEN s
  ELSE
    LET s1 == set_selection(
                [s EXCEPT !.has_pressed_arrow_key = TRUE,
                          !.stop_dragged_index =
                   Some(Pos(x_to_index(s, p.x), y_to_index(s, p.y)))])
        s2 == set_cursor_x(s1, x_to_index(s1, p.x))
    IN set_cursor_y(s2, y_to_index(s2, p.y))

on_drag(s, p) ==
  IF s.fault THEN s
  ELSE
    LET s1 == set_selection(
                [s EXCEPT !.stop_dragged_index =
                   Some(Pos(x_to_index(s, p.x), y_to_index(s, p.y)))])
        s2 == set_cursor_x(s1, x_to_index(s1, p.x))
    IN set_cursor_y(s2, y_to_index(s2, p.y))


\* ---------------------------------------------------------- visible window
\* ui(), line 198: the height of the viewport, three lines of text.
text_editor_viewport_height == 3 * line_height

first_line_index(s) ==
  LET first == Max(0, s.scroll_offset.y) \div line_height
      n == Len(s.lines)
  IN IF first > n - 1 /\ n > 1 THEN n - 2
     ELSE IF first > n THEN n - 1
     ELSE first

\* Variant of last_line_Index that takes the window to the document's end.
LastLineOfDocument(s, max_lines, first) == Len(s.lines)

last_line_Index(s, max_lines, first) ==
  IF first + max_lines > Len(s.lines) THEN Len(s.lines) ELSE first + max_lines

\* ui(), lines 204-227 without the horizontal part: the scroll that brings the
\* cursor back into view after an arrow key or Enter, then the upper limit.
\* cursor_pos.y is index_to_y(cursor_index.y).
ScrollToCursor(s) ==
  LET cursor_pos_y == s.cursor_index.y * line_height
      cursor_offset_y == s.scroll_offset.y + text_editor_viewport_height
                         - line_height - cursor_pos_y
      scrolled ==
        IF ~s.has_pressed_arrow_key THEN s.scroll_offset.y
        ELSE IF cursor_offset_y < 0
        THEN s.scroll_offset.y
             + (((0 - cursor_offset_y) \div line_height) + 1) * line_height
        ELSE IF cursor_offset_y > text_editor_viewport_height
        THEN s.scroll_offset.y
             - (((cursor_offset_y - text_editor_viewport_height)
                   \div line_height) + 1) * line_height
        ELSE s.scroll_offset.y
      limit == s.lines_count * line_height
  IN [s EXCEPT !.has_pressed_arrow_key = FALSE,
               !.scroll_offset.y = IF scrolled > limit THEN limit ELSE scrolled]

\* -------------------------------------------------------- bracket searches
\* The loop of find_closing_matching_char over the characters of frag, from
\* character i on: [occurrence, found], found the column after the closing
\* bracket.
RECURSIVE ClosingScan(_, _, _, _, _)
ClosingScan(frag, i, occurrence, opening, skip_before) ==
  IF i >= CharCount(frag) THEN [occurrence |-> occurrence, found |-> None]
  ELSE IF i < skip_before
  THEN ClosingScan(frag, i + 1, occurrence, opening, skip_before)
  ELSE
    LET c == At(frag, i)
        occ == IF c = opening THEN occurrence + 1
               ELSE IF matching_closing_char(opening) = c THEN occurrence - 1
               ELSE occurrence
    IN IF matching_closing_char(opening) = c /\ occ = 0
       THEN [occurrence |-> occ, found |-> Some(i + 1)]
       ELSE ClosingScan(frag, i + 1, occ, opening, skip_before)

\* [ed |-> the editor after the call, occurrence |-> the returned counter]
find_closing_matching_char(s, opening_char_occurrence, frag, absolute_line_index) ==
  IF IsSome(s.opening_char) /\ ~IsSome(s.closing_char)
  THEN
    LET opening == Unwrap(s.opening_char)
        index == Unwrap(s.opening_char_index)
    IN IF absolute_line_index >= index.y
       THEN
         LET r == ClosingScan(frag, 0, opening_char_occurrence, opening,
                              IF index.y = absolute_line_index THEN index.x ELSE 0)
         IN [ed |-> IF IsSome(r.found)
                    THEN [s EXCEPT
                            !.closing_char = Some(matching_closing_char(opening)),
                            !.closing_char_index =
                               Some(Pos(Unwrap(r.found), absolute_line_index))]
                    ELSE s,
             occurrence |-> r.occurrence]
       ELSE [ed |-> s, occurrence |-> opening_char_occurrence]
  ELSE [ed |-> s, occurrence |-> opening_char_occurrence]

\* ui(), lines 248-258: find_closing_matching_char on each line of
\* lines[first_line_index..last_line_index], from line_index on.
RECURSIVE ClosingOverWindow(_, _, _, _)
ClosingOverWindow(s, occurrence, line_index, last) ==
  IF line_index >= last THEN s
  ELSE LET r == find_closing_matching_char(s, occurrence,
                                           At(s.lines, line_index), line_index)
       IN ClosingOverWindow(r.ed, r.occurrence, line_index + 1, last)

\* The loop of find_opening_matching_char over the characters of frag in
\* reverse, i counting from the line's end: [occurrence, found], found the
\* column recorded for the opening bracket, frag.len() - i - 1.
RECURSIVE OpeningScan(_, _, _, _, _)
OpeningScan(frag, i, occurrence, closing, skip_after) ==
  IF i >= CharCount(frag) THEN [occurrence |-> occurrence, found |-> None]
  ELSE IF IsSome(skip_after) /\ ByteLen(frag) - i > Unwrap(skip_after)
  THEN OpeningScan(frag, i + 1, occurrence, closing, skip_after)
  ELSE
    LET c == At(frag, CharCount(frag) - 1 - i)
        occ == IF c = closing THEN occurrence + 1
               ELSE IF matching_opening_char(closing) = c THEN occurrence - 1
               ELSE occurrence
    IN IF matching_opening_char(closing) = c /\ occ = 0
       THEN [occurrence |-> occ, found |-> Some(ByteLen(frag) - i - 1)]
       ELSE OpeningScan(frag, i + 1, occ, closing, skip_after)

\* find_opening_matching_char, line 363: the line index the loop gives to the
\* relative_line_index-th line of lines[first..slice_end] taken in reverse.
OpeningLineLabel(last_line_index, slice_end, relative_line_index) ==
  last_line_index - relative_line_index

\* The loop of find_opening_matching_char over lines[first..slice_end] in
\* reverse, from the relative_line_index-th line on.
RECURSIVE OpeningOverWindow(_, _, _, _, _, _)
OpeningOverWindow(s, occurrence, relative_line_index, first, slice_end, last) ==
  IF relative_line_index >= slice_end - first
  THEN [ed |-> s, occurrence |-> occurrence]
  ELSE
    LET frag == At(s.lines, slice_end - 1 - relative_line_index)
        absolute_line_index ==
          OpeningLineLabel(last, slice_end, relative_line_index)
        closing == Unwrap(s.closing_char)
        index == Unwrap(s.closing_char_index)
    IN IF IsSome(s.closing_char) /\ ~IsSome(s.opening_char)
          /\ absolute_line_index <= index.y
       THEN
         LET r == OpeningScan(frag, 0, occurrence, closing,
                              IF index.y = absolute_line_index
                              THEN Some(index.x) ELSE None)
         IN OpeningOverWindow(
              IF IsSome(r.found)
              THEN [s EXCEPT
                      !.opening_char = Some(matching_opening_char(closing)),
                      !.opening_char_index =
                         Some(Pos(Unwrap(r.found), absolute_line_index))]
              ELSE s,
              r.occurrence, relative_line_index + 1, first, slice_end, last)
       ELSE OpeningOverWindow(s, occurrence, relative_line_index + 1,
                              first, slice_end, last)

\* [ed |-> the editor after the call, occurrence |-> the returned counter]
find_opening_matching_char(s, first_line, last_line, opening_char_occurrence) ==
  IF IsSome(s.closing_char) /\ ~IsSome(s.opening_char)
  THEN OpeningOverWindow(s, opening_char_occurrence, 0, first_line,
                         Min(last_line + 1, Len(s.lines)), last_line)
  ELSE [ed |-> s, occurrence |-> opening_char_occurrence]

\* ui(), lines 244-258: the two searches of a frame, over the window computed
\* at lines 201-202.
BracketSearch(s, first, last) ==
  LET o == find_opening_matching_char(s, first, last, 0)
  IN ClosingOverWindow(o.ed, o.occurrence, first, last)

\* ------------------------------------------------------------------ frames
\* stage: 0 between two calls of ui(); 1 ui() has begun; 2 on_click has run;
\* 3 on_double_click has run; 4 on_drag_start has run; 5 on_drag has run or
\* handle_key_events is going through the frame's events.
StageIdle == 0
StageBegun == 1
StageClicked == 2
StageDoubleClicked == 3
StageDragStarted == 4
StageKeys == 5

\* The files the editor is opened on (TextEditor::new splits the content on "\n").
InitDocs ==
  { << <<"a", "b", "c">> >>,
    << <<"a", "b">>, <<"c", "d">> >>,
    << <<WideChar>>, <<>> >>,
    << <<>> >> }

\* The texts an Event::Text carries: one character, or two at once (a paste,
\* an input method).
TextInputs == { <<"X">>, <<"X", "Y">> }
\* Time steps between two frames: below the inactivity period, and at it.
Dts == {1, InactivityPeriod}
\* Pointer positions, in pixels relative to the viewport's origin: three
\* columns, and a pixel row in each of the viewport's three lines.
PointerPositions == { Pos(x, y) : x \in {0, char_width, 3 * char_width},
                                  y \in {0, line_height + 1, 2 * line_height} }

\* Source files: a block on two lines, and a block nested in a block, on more
\* lines than the viewport shows.
CodeDocs ==
  { << <<"{">>, <<"}">> >>,
    << <<"{">>, <<"{">>, <<"}">>, <<"}">> >> }

\* The vertical offsets the scroll area reports after the user has scrolled.
ScrollOffsets == {0, line_height}

\* TextEditor::new, lines 120-178, on one of the documents docs.
NewEditor(docs) ==
  /\ lines \in docs
  /\ lines_count = Len(lines)
  /\ cursor_index = Pos(0, 0)
  /\ start_dragged_index = None
  /\ stop_dragged_index = None
  /\ selection_start_index = None
  /\ selection_end_index = None
  /\ unsaved_stated = None
  /\ history = <<>>
  /\ scroll_offset = Pos(0, 0)
  /\ has_pressed_arrow_key = FALSE
  /\ opening_char = None
  /\ closing_char = None
  /\ opening_char_index = None
  /\ closing_char_index = None
  /\ fault = FALSE
  /\ time = 0
  /\ stage = StageIdle
  /\ interact_pos = None
  /\ lastEvent = "new"
  /\ lastText = <<>>
  /\ batchStart = None
  /\ entryStart = <<>>

InitEditor == NewEditor(InitDocs)

Init ==
  /\ InitEditor
  /\ eventsLeft = MaxEvents
  /\ framesLeft = MaxFrames

\* History variables.  batchStart is set when init_unsaved_state opens a
\* batch: the document and the cursor before the event that opened it, whether
\* every change of the document since then was a text insertion without
\* selection (plain), and whether every change was one of the four keys that
\* push an action, pressed without selection (recorded).  entryStart holds, for
\* each entry of history, the batch's record, whether the entry was pushed by
\* the feed_history that ends a frame (tick), and the document once the entry
\* was pushed.
RecordingEvents == {"Text", "Backspace", "Delete", "Enter"}
TrackBatch(r) ==
  LET changed == r.lines # lines
      nosel == ~has_selection(Ed)
      silent == lastEvent' \notin RecordingEvents /\ ~changed
      plainStep == silent \/ (lastEvent' = "Text" /\ Len(lastText') = 1 /\ nosel)
      recordedStep == silent \/ (lastEvent' \in RecordingEvents /\ nosel)
      opened == [lines |-> lines, cursor_index |-> cursor_index,
                 plain |-> plainStep, recorded |-> recordedStep]
      current == IF IsSome(batchStart)
                 THEN [Unwrap(batchStart) EXCEPT !.plain = @ /\ plainStep,
                                                 !.recorded = @ /\ recordedStep]
                 ELSE opened
  IN /\ batchStart' = IF IsSome(r.unsaved_stated) THEN Some(current) ELSE None
     /\ entryStart' =
          IF Len(r.history) > Len(history)
          THEN Append(entryStart, [before |-> current.lines,
                                   cursor_index |-> current.cursor_index,
                                   plain |-> current.plain,
                                   recorded |-> current.recorded,
                                   tick |-> lastEvent' = "ui_end",
                                   after |-> r.lines])
          ELSE IF Len(r.history) < Len(history)
          THEN SubSeq(entryStart, 1, Len(entryStart) - 1)
          ELSE entryStart

\* The editor becomes r; a panic leaves the fields as they were and sets fault.
Commit(r) ==
  IF r.fault
  THEN /\ fault' = TRUE
       /\ UNCHANGED <<lines, lines_count, cursor_index, start_dragged_index,
                      stop_dragged_index, selection_start_index,
                      selection_end_index, unsaved_stated, history, scroll_offset,
                      has_pressed_arrow_key, opening_char, closing_char,
                      opening_char_index, closing_char_index,
                      batchStart, entryStart>>
  ELSE /\ lines' = r.lines
       /\ lines_count' = r.lines_count
       /\ cursor_index' = r.cursor_index
       /\ start_dragged_index' = r.start_dragged_index
       /\ stop_dragged_index' = r.stop_dragged_index
       /\ selection_start_index' = r.selection_start_index
       /\ selection_end_index' = r.selection_end_index
       /\ unsaved_stated' = r.unsaved_stated
       /\ history' = r.history
       /\ scroll_offset' = r.scroll_offset
       /\ has_pressed_arrow_key' = r.has_pressed_arrow_key
       /\ opening_char' = r.opening_char
       /\ closing_char' = r.closing_char
       /\ opening_char_index' = r.opening_char_index
       /\ closing_char_index' = r.closing_char_index
       /\ fault' = FALSE
       /\ TrackBatch(r)

\* ui(), lines 180-258: the document is never left empty, lines_count is
\* refreshed, the window is computed, the scroll follows the cursor, the
\* brackets are searched.
ui_begin(s) ==
  LET ls == IF Len(s.lines) = 0 THEN << <<>> >> ELSE s.lines
      s1 == [s EXCEPT !.lines = ls, !.lines_count = Len(ls)]
      max_lines == text_editor_viewport_height \div line_height
      first == first_line_index(s1)
      last == last_line_Index(s1, max_lines, first)
  IN BracketSearch(ScrollToCursor(s1), first, last)

\* Variant of ui_end that ends the frame without feed_history.
UiEndWithoutFeed(s, now, offset_y) == [s EXCEPT !.scroll_offset.y = offset_y]

\* The rectangles paint_matching_opening_closing_char pushes, each one the
\* column and the viewport row of a highlighted bracket.
paint_matching_opening_closing_char(s, first) ==
  (IF IsSome(s.opening_char_index) /\ Unwrap(s.opening_char_index).y >= first
   THEN << [x |-> Unwrap(s.opening_char_index).x,
            row |-> Unwrap(s.opening_char_index).y - first] >>
   ELSE <<>>)
  \o
  (IF IsSome(s.closing_char_index) /\ Unwrap(s.closing_char_index).y >= first
      /\ Unwrap(s.closing_char_index).x > 0
   THEN << [x |-> Unwrap(s.closing_char_index).x - 1,
            row |-> Unwrap(s.closing_char_index).y - first] >>
   ELSE <<>>)

\* ui(), line 281: the bracket highlights of the frame that begins in s, painted
\* once the brackets are searched, with the first_line_index of line 201.
ui_bracket_shapes(s) ==
  LET ls == IF Len(s.lines) = 0 THEN << <<>> >> ELSE s.lines
      s1 == [s EXCEPT !.lines = ls, !.lines_count = Len(ls)]
  IN paint_matching_opening_closing_char(ui_begin(s), first_line_index(s1))

\* ui(), lines 321-327: the scroll area's offset is taken over, then feed_history.
ui_end(s, now, offset_y) ==
  feed_history([s EXCEPT !.scroll_offset.y = offset_y], now)

UiBegin(dt) ==
  /\ ~fault /\ stage = StageIdle /\ framesLeft > 0
  /\ time' = time + dt
  /\ framesLeft' = framesLeft - 1
  /\ stage' = StageBegun
  /\ lastEvent' = "ui_begin"
  /\ lastText' = <<>>
  /\ Commit(ui_begin(Ed))
  /\ UNCHANGED <<interact_pos, eventsLeft>>

UiEnd ==
  /\ ~fault /\ stage # StageIdle
  /\ stage' = StageIdle
  /\ interact_pos' = None
  /\ lastEvent' = "ui_end"
  /\ lastText' = <<>>
  /\ Commit(ui_end(Ed, time, scroll_offset.y))
  /\ UNCHANGED <<time, eventsLeft, framesLeft>>

\* The end of a frame in which the user has scrolled the area to offset_y.  The
\* area's content is lines_count * line_height high (ui(), line 236), and the
\* area scrolls as far as its content's last pixel row at the viewport's
\* bottom.
UiEndScrolled(offset_y) ==
  /\ ~fault /\ stage # StageIdle
  /\ offset_y # scroll_offset.y
  /\ offset_y + text_editor_viewport_height <= lines_count * line_height
  /\ stage' = StageIdle
  /\ interact_pos' = None
  /\ lastEvent' = "ui_end"
  /\ lastText' = <<>>
  /\ Commit(ui_end(Ed, time, offset_y))
  /\ UNCHANGED <<time, eventsLeft, framesLeft>>

\* A pointer handler: it reads the frame's interact_pos.
Pointer(from, to, name, p) ==
  /\ ~fault /\ stage \in from /\ eventsLeft > 0
  /\ interact_pos \in {None, Some(p)}
  /\ interact_pos' = Some(p)
  /\ stage' = to
  /\ eventsLeft' = eventsLeft - 1
  /\ lastEvent' = name
  /\ lastText' = <<>>
  /\ UNCHANGED <<time, framesLeft>>

Click(p) ==
  /\ Pointer({StageBegun}, StageClicked, "on_click", p)
  /\ Commit(on_click(Ed, p))

DoubleClick(p) ==
  /\ Pointer({StageBegun, StageClicked}, StageDoubleClicked, "on_double_click", p)
  /\ Commit(on_double_click(Ed, p))

DragStart(p) ==
  /\ Pointer(StageBegun..StageDoubleClicked, StageDragStarted, "on_drag_start", p)
  /\ Commit(on_drag_start(Ed, p))

Drag(p) ==
  /\ Pointer(StageBegun..StageDragStarted, StageKeys, "on_drag", p)
  /\ Commit(on_drag(Ed, p))

\* One event of the frame's event list, handled by handle_key_events.
KeyInput(name, text) ==
  /\ ~fault /\ stage # StageIdle /\ eventsLeft > 0
  /\ stage' = StageKeys
  /\ interact_pos' = None
  /\ eventsLeft' = eventsLeft - 1
  /\ lastEvent' = name
  /\ lastText' = text
  /\ UNCHANGED <<time, framesLeft>>

Key(name) == KeyInput(name, <<>>)

TextEvent(text) == KeyInput("Text", text) /\ Commit(OnText(Ed, time, text))
ArrowDown(shift) == Key("ArrowDown") /\ Commit(OnArrowVertical(Ed, TRUE, shift))
ArrowUp(shift) == Key("ArrowUp") /\ Commit(OnArrowVertical(Ed, FALSE, shift))
ArrowRight(shift) == Key("ArrowRight") /\ Commit(OnArrowHorizontal(Ed, TRUE, shift))
ArrowLeft(shift) == Key("ArrowLeft") /\ Commit(OnArrowHorizontal(Ed, FALSE, shift))
Backspace == Key("Backspace") /\ Commit(OnBackspace(Ed, time))
Delete == Key("Delete") /\ Commit(OnDelete(Ed, time))
Enter == Key("Enter") /\ Commit(OnEnter(Ed, time))
CtrlA == Key("CtrlA") /\ Commit(OnSelectAll(Ed))
CtrlZ == Key("CtrlZ") /\ Commit(Undo(Ed))

KeyEvents ==
  \/ \E text \in TextInputs : TextEvent(text)
  \/ \E shift \in BOOLEAN : ArrowDown(shift)
  \/ \E shift \in BOOLEAN : ArrowUp(shift)
  \/ \E shift \in BOOLEAN : ArrowRight(shift)
  \/ \E shift \in BOOLEAN : ArrowLeft(shift)
  \/ Backspace
  \/ Delete
  \/ Enter
  \/ CtrlA
  \/ CtrlZ

PointerEvents ==
  \/ \E p \in PointerPositions : Click(p)
  \/ \E p \in PointerPositions : DoubleClick(p)
  \/ \E p \in PointerPositions : DragStart(p)
  \/ \E p \in PointerPositions : Drag(p)

Next ==
  \/ \E dt \in Dts : UiBegin(dt)
  \/ UiEnd
  \/ KeyEvents
  \/ PointerEvents

Spec == Init /\ [][Next]_vars

\* Keyboard sessions: the same frames without the pointer handlers.
InitKeys ==
  /\ InitEditor
  /\ eventsLeft = MaxKeyEvents
  /\ framesLeft = MaxKeyFrames

NextKeys ==
  \/ \E dt \in Dts : UiBegin(dt)
  \/ UiEnd
  \/ KeyEvents

SpecKeys == InitKeys /\ [][NextKeys]_vars

\* Keyboard sessions on a source file, the user scrolling as well.
InitCode ==
  /\ NewEditor(CodeDocs)
  /\ eventsLeft = MaxCodeEvents
  /\ framesLeft = MaxCodeFrames

NextCode ==
  \/ \E dt \in Dts : UiBegin(dt)
  \/ UiEnd
  \/ \E offset_y \in ScrollOffsets : UiEndScrolled(offset_y)
  \/ KeyEvents

SpecCode == InitCode /\ [][NextCode]_vars

\* Sessions on a source file with the pointer, the keyboard and the wheel.
\* The wheel scrolls by pixels, so that a line may be cut by the viewport's
\* top.  A click, a double click and the start of a drag are inside the
\* viewport; a drag goes on below it.
PixelOffsets == {0, 1, line_height}
ViewportPositions == { Pos(x, y) : x \in {0, char_width},
                                   y \in {1, line_height} }
DragPositions == ViewportPositions
                 \cup { Pos(0, text_editor_viewport_height) }

InitScroll ==
  /\ NewEditor(CodeDocs)
  /\ eventsLeft = MaxScrollEvents
  /\ framesLeft = MaxScrollFrames

NextScroll ==
  \/ \E dt \in Dts : UiBegin(dt)
  \/ UiEnd
  \/ \E offset_y \in PixelOffsets : UiEndScrolled(offset_y)
  \/ KeyEvents
  \/ \E p \in ViewportPositions : Click(p)
  \/ \E p \in ViewportPositions : DoubleClick(p)
  \/ \E p \in ViewportPositions : DragStart(p)
  \/ \E p \in DragPositions : Drag(p)

SpecScroll == InitScroll /\ [][NextScroll]_vars

\* Keyboard sessions whose frames go on: ui() is called frame after frame for
\* as long as the clock has not reached MaxLiveTime.
UiBeginLive(dt) ==
  /\ ~fault /\ stage = StageIdle /\ time + dt <= MaxLiveTime
  /\ time' = time + dt
  /\ stage' = StageBegun
  /\ lastEvent' = "ui_begin"
  /\ lastText' = <<>>
  /\ \E r \in {ui_begin(Ed)} : Commit(r)
  /\ UNCHANGED <<interact_pos, eventsLeft, framesLeft>>

\* The end of such a frame, the scroll area giving back the offset it was given.
UiEndLive ==
  /\ ~fault /\ stage # StageIdle
  /\ stage' = StageIdle
  /\ interact_pos' = None
  /\ lastEvent' = "ui_end"
  /\ lastText' = <<>>
  /\ \E r \in {ui_end(Ed, time, scroll_offset.y)} : Commit(r)
  /\ UNCHANGED <<time, eventsLeft, framesLeft>>

InitLive ==
  /\ InitEditor
  /\ eventsLeft = MaxLiveEvents
  /\ framesLeft = 0

NextLive ==
  \/ \E dt \in Dts : UiBeginLive(dt)
  \/ UiEndLive
  \/ KeyEvents

\* Every frame that can begin does begin, and every frame that has begun ends.
SpecLive ==
  /\ InitLive /\ [][NextLive]_vars
  /\ WF_vars(\E dt \in Dts : UiBeginLive(dt))
  /\ WF_vars(UiEndLive)

\* Typing sessions: text is typed, the cursor is moved along the line, and
\* the typing is undone, over enough frames for two batches to be flushed
\* and undone.
InitTyping ==
  /\ InitEditor
  /\ eventsLeft = MaxTypingEvents
  /\ framesLeft = MaxTypingFrames

NextTyping ==
  \/ \E dt \in Dts : UiBegin(dt)
  \/ UiEnd
  \/ \E text \in TextInputs : TextEvent(text)
  \/ ArrowRight(FALSE)
  \/ ArrowLeft(FALSE)
  \/ CtrlZ

SpecTyping == InitTyping /\ [][NextTyping]_vars

\* ------------------------------------------------------------------ claims
LexLeq(a, b) == a.y < b.y \/ (a.y = b.y /\ a.x <= b.x)
ValidPosition(ls, pos) ==
  /\ 0 <= pos.y /\ pos.y < Len(ls)
  /\ 0 <= pos.x /\ pos.x <= CharCount(At(ls, pos.y))

\* C1: the document always holds at least one line.
C1_LineCountAtLeastOne == Len(lines) >= 1

\* Delete on the only line of an empty document: the line stays.
C1_Witness ==
  /\ lastEvent = "Delete"
  /\ lines = << <<>> >>
  /\ ~fault

\* C2: after every event, also the second and third of one frame and an undo,
\* the cursor is on a line of the document and at most at that line's length
\* in characters.
C2_CursorWithinDocument == ~fault => ValidPosition(lines, cursor_index)

\* C3: no sequence of inputs makes the editor access a line or a character
\* out of range: the process never panics.
C3_NoFault == ~fault

\* The HistoryEntry Ctrl+Z is about to pop, and its history-variable record.
TopEntry == history[Len(history)]
TopStart == entryStart[Len(entryStart)]
\* Line i of document ls, or None when ls has no line i.
LineAt(ls, i) == IF i < Len(ls) THEN Some(At(ls, i)) ELSE None

\* C4: for a batch of recorded actions (AddChar, RemoveChar, RemoveLine,
\* NewLine), flushing the batch at the end of a frame and then undoing it gives the lines of the
\* entry's range [start_index, end_index] the content they had before the
\* batch, and puts the cursor where it was when the batch started.
C4_HistoryRoundTrip ==
  [][(lastEvent' = "CtrlZ" /\ ~fault' /\ history # <<>>
        /\ TopStart.recorded /\ TopStart.tick /\ lines = TopStart.after)
     => (/\ \A i \in TopEntry.start_index .. TopEntry.end_index :
              LineAt(lines', i) = LineAt(TopStart.before, i)
         /\ cursor_index' = TopStart.cursor_index)]_vars

\* C5: text insertions of one character, typed without selection less than
\* InactivityPeriod apart and followed by an idle InactivityPeriod with frame
\* ticks, make one HistoryEntry: no entry is pushed before InactivityPeriod has
\* passed since the batch's last activity, a step pushes at most one entry,
\* and one Ctrl+Z on the flushed batch removes every inserted character.
C5_DebounceCoalescing ==
  [][/\ Len(history') <= Len(history) + 1
     /\ (Len(history') > Len(history) /\ IsSome(unsaved_stated))
        => time' - Unwrap(unsaved_stated).last_activity_at >= InactivityPeriod
     /\ (lastEvent' = "CtrlZ" /\ ~fault' /\ history # <<>>
           /\ TopStart.plain /\ TopStart.tick /\ lines = TopStart.after)
        => lines' = TopStart.before]_vars

\* C6: a selection published from a drag anchor and an endpoint has its start
\* at or before its end, line first and character second, wherever the two
\* positions lie (below the last line and beyond a line's end included).
C6_SelectionStartBeforeEnd ==
  (~fault /\ lastEvent = "on_drag" /\ has_selection(Ed))
  => LexLeq(Unwrap(selection_start_index), Unwrap(selection_end_index))

\* The selection a drag from pixel pa to pixel pb publishes in editor s.
DragSelection(s, pa, pb) ==
  LET r == on_drag(on_drag_start(s, pa), pb)
  IN <<r.fault, r.selection_start_index, r.selection_end_index>>

\* C7: dragging from A to B and dragging from B to A publish the same
\* selection.  Stated where a drag has just started at the pointer position
\* A: for every endpoint B, ending the drag at B publishes what the drag from
\* B to A publishes in the same editor.
C7_DragSymmetric ==
  (~fault /\ lastEvent = "on_drag_start" /\ IsSome(interact_pos))
  => \A pb \in PointerPositions :
       DragSelection(Ed, Unwrap(interact_pos), pb)
         = DragSelection(Ed, pb, Unwrap(interact_pos))

\* A drag that went backwards within line 0 of "abc": from column 3 to column 1.
C7_Witness ==
  /\ ~fault /\ lastEvent = "on_drag"
  /\ lines = << <<"a", "b", "c">> >>
  /\ start_dragged_index = Some(Pos(3, 0))
  /\ stop_dragged_index = Some(Pos(1, 0))
  /\ selection_start_index = Some(Pos(1, 0))
  /\ selection_end_index = Some(Pos(3, 0))

\* C8: Ctrl+Z with an empty history changes nothing (document, cursor,
\* selection, pending batch, history) and does not panic.
C8_UndoOnEmptyHistory ==
  [][(lastEvent' = "CtrlZ" /\ history = <<>>)
     => (/\ ~fault'
         /\ UNCHANGED <<lines, cursor_index, selection_start_index,
                        selection_end_index, start_dragged_index,
                        stop_dragged_index, unsaved_stated, history>>)]_vars

\* Ctrl+Z in the first frame, after a key that opened a batch: no batch can
\* have been flushed before InactivityPeriod has passed, so history was empty.
C8_Witness ==
  /\ ~fault /\ lastEvent = "CtrlZ"
  /\ time < InactivityPeriod
  /\ history = <<>>
  /\ IsSome(unsaved_stated)

\* C9: without selection, a text event carrying one character t with the
\* cursor at (l, c) makes line l its first c characters, t, and the rest,
\* leaves the other lines alone and moves the cursor to (l, c + 1).
C9_TextInsertion ==
  [][(lastEvent' = "Text" /\ Len(lastText') = 1 /\ ~fault' /\ ~has_selection(Ed)
        /\ ValidPosition(lines, cursor_index))
     => \E text \in {lastText'} :
          /\ lines' = SetAt(lines, cursor_index.y,
                 LET line == At(lines, cursor_index.y)
                 IN Take(line, cursor_index.x) \o text \o Drop(line, cursor_index.x))
          /\ cursor_index' = Pos(cursor_index.x + 1, cursor_index.y)]_vars

\* C10: without selection, Backspace at (l, 0) with l > 0 appends line l to
\* line l - 1, removes line l and puts the cursor at (l - 1, old length of
\* line l - 1); at (l, c) with c > 0 it removes character c - 1 of line l and
\* puts the cursor at (l, c - 1); at (0, 0) nothing changes.
C10_Backspace ==
  [][(lastEvent' = "Backspace" /\ ~fault' /\ ~has_selection(Ed)
        /\ ValidPosition(lines, cursor_index))
     => LET l == cursor_index.y
            c == cursor_index.x
        IN IF c = 0 /\ l > 0
           THEN /\ lines' = SetAt(VecRemove(lines, l), l - 1,
                                  At(lines, l - 1) \o At(lines, l))
                /\ cursor_index' = Pos(CharCount(At(lines, l - 1)), l - 1)
           ELSE IF c > 0
           THEN /\ lines' = SetAt(lines, l,
                                  Take(At(lines, l), c - 1) \o Drop(At(lines, l), c))
                /\ cursor_index' = Pos(c - 1, l)
           ELSE UNCHANGED <<lines, cursor_index>>]_vars

\* The selection is normalized and lies within document ls.
NormalizedSelection(ls, st, en) ==
  ValidPosition(ls, st) /\ ValidPosition(ls, en) /\ LexLeq(st, en)

\* C11: with a normalized, non-empty selection (l, a)-(l, b) within one line, a text
\* event carrying t replaces the selected characters by t, leaves the other
\* lines alone, puts the cursor right after the inserted text, at
\* (l, a + length of t), and clears the selection.
C11_TypeOverSelection ==
  [][(lastEvent' = "Text" /\ ~fault' /\ is_single_line_selection(Ed)
        /\ NormalizedSelection(lines, Unwrap(selection_start_index),
                               Unwrap(selection_end_index))
        /\ Unwrap(selection_start_index) # Unwrap(selection_end_index))
     => LET st == Unwrap(selection_start_index)
            en == Unwrap(selection_end_index)
            line == At(lines, st.y)
        IN /\ lines' = SetAt(lines, st.y,
                              Take(line, st.x) \o lastText' \o Drop(line, en.x))
           /\ cursor_index' = Pos(st.x + Len(lastText'), st.y)
           /\ ~has_selection(Ed)']_vars

\* C12: with a normalized selection within the document (inside one line,
\* over two adjacent lines, or over more), a key that replaces the selection
\* by r (the text of a text event; nothing for Backspace, Delete and Enter)
\* leaves the lines before the selection's first line, then one line made of
\* the first line up to the selection's start, r, and the last line from the
\* selection's end on, then the lines after the selection's last line.
C12_ReplaceSelection ==
  [][(lastEvent' \in RecordingEvents /\ ~fault' /\ has_selection(Ed)
        /\ NormalizedSelection(lines, Unwrap(selection_start_index),
                               Unwrap(selection_end_index)))
     => LET st == Unwrap(selection_start_index)
            en == Unwrap(selection_end_index)
        IN lines' = SubSeq(lines, 1, st.y)
                    \o << Take(At(lines, st.y), st.x) \o lastText'
                          \o Drop(At(lines, en.y), en.x) >>
                    \o SubSeq(lines, en.y + 2, Len(lines))]_vars

\* In the document "{", "{", "}", "}" (lines_count is still 4) Shift+ArrowDown
\* twice selected (0, 0)-(2, 0), over three lines, and Backspace replaced the
\* selection by nothing: lines 2 and 3 are left, and nothing was recorded.
C12_Witness ==
  /\ ~fault /\ lastEvent = "Backspace"
  /\ lines = << <<"}">>, <<"}">> >>
  /\ lines_count = 4
  /\ cursor_index = Pos(0, 0)
  /\ unsaved_stated = None /\ history = <<>>

\* The editor has no selection, no drag anchor and no drag endpoint.
SelectionCleared(s) ==
  /\ s.selection_start_index = None /\ s.selection_end_index = None
  /\ s.start_dragged_index = None /\ s.stop_dragged_index = None

\* C13: once key_press_on_selection has run, with a text or without, the
\* cursor is at the selection's start and the selection, the drag anchor and
\* the drag endpoint are absent.  Backspace, Delete and Enter on a selection
\* end with that call; for a text event the state right after the call is
\* the one computed from the state before the event.
C13_AfterReplaceSelection ==
  [][(has_selection(Ed) /\ lastEvent' \in RecordingEvents /\ ~fault')
     => LET st == Unwrap(selection_start_index)
            k == key_press_on_selection(Ed, lastText')
        IN /\ ~k.fault
           /\ k.cursor_index = st
           /\ SelectionCleared(k)
           /\ lastEvent' # "Text"
              => (cursor_index' = st /\ SelectionCleared(Ed)')]_vars

\* C14: replacing the selection by nothing twice in a row leaves the document
\* after the second time as it was after the first.  The keys that replace a
\* selection by nothing are Backspace, Delete and Enter: in every state with
\* a selection, pressing one of them twice gives the document that pressing
\* it once gives.  Stated for the selections that hold a character at least.
C14_ReplaceIdempotent ==
  (~fault /\ stage # StageIdle /\ has_selection(Ed)
     /\ selection_start_index # selection_end_index)
  => /\ LET once == OnBackspace(Ed, time)
            twice == OnBackspace(once, time)
        IN (~once.fault /\ ~twice.fault) => twice.lines = once.lines
     /\ LET once == OnDelete(Ed, time)
            twice == OnDelete(once, time)
        IN (~once.fault /\ ~twice.fault) => twice.lines = once.lines
     /\ LET once == OnEnter(Ed, time)
            twice == OnEnter(once, time)
        IN (~once.fault /\ ~twice.fault) => twice.lines = once.lines

\* The last line of the document and its length in characters.
LastLineIndex == Len(lines) - 1
EndOfDocument == Pos(CharCount(At(lines, LastLineIndex)), LastLineIndex)

\* C19: Ctrl+A makes the selection (0, 0)-(last line, length of the last
\* line) and moves the cursor to (last line, length of the last line).
C19_SelectAll ==
  [][(lastEvent' = "CtrlA" /\ ~fault')
     => /\ selection_start_index' = Some(Pos(0, 0))
        /\ selection_end_index' = Some(EndOfDocument)
        /\ cursor_index' = EndOfDocument]_vars

\* The number of actions in a pending batch, 0 when there is none.
PendingActions(u) == IF IsSome(u) THEN Len(Unwrap(u).actions) ELSE 0

\* C20: a text event, Backspace, Delete or Enter that changes the document,
\* with a selection or without, appends an action to the pending batch: the
\* batch holds one action more after the event, unless the push flushed the
\* batch, the new action included, into a new HistoryEntry.
C20_ChangeIsRecorded ==
  [][(lastEvent' \in RecordingEvents /\ ~fault' /\ lines' # lines)
     => \/ PendingActions(unsaved_stated') > PendingActions(unsaved_stated)
        \/ Len(history') > Len(history)]_vars

\* ------------------------------------------------------- brackets, claims
\* The positions of document ls in reading order, each with its character.
RECURSIVE DocChars(_, _)
DocChars(ls, y) ==
  IF y >= Len(ls) THEN <<>>
  ELSE [i \in 1..Len(At(ls, y)) |-> [x |-> i - 1, y |-> y, c |-> At(ls, y)[i]]]
       \o DocChars(ls, y + 1)

\* The index in DocChars(ls, 0) of the character at position pos.
DocIndex(ls, pos) ==
  CHOOSE k \in 1..Len(DocChars(ls, 0)) :
    DocChars(ls, 0)[k].x = pos.x /\ DocChars(ls, 0)[k].y = pos.y

\* The nesting partner of the closing bracket at index k of cs: Some(its
\* position), or None.  Going left from k - 1 at depth 0, a bracket like the
\* one at k opens a nested pair, its opening counterpart closes one, or is the
\* partner at depth 0.
RECURSIVE PartnerBefore(_, _, _, _)
PartnerBefore(cs, k, j, depth) ==
  IF j < 1 THEN None
  ELSE IF cs[j].c = cs[k].c THEN PartnerBefore(cs, k, j - 1, depth + 1)
  ELSE IF cs[j].c = matching_opening_char(cs[k].c)
  THEN IF depth = 0 THEN Some(Pos(cs[j].x, cs[j].y))
       ELSE PartnerBefore(cs, k, j - 1, depth - 1)
  ELSE PartnerBefore(cs, k, j - 1, depth)

\* The nesting partner of the opening bracket at index k of cs, going right.
RECURSIVE PartnerAfter(_, _, _, _)
PartnerAfter(cs, k, j, depth) ==
  IF j > Len(cs) THEN None
  ELSE IF cs[j].c = cs[k].c THEN PartnerAfter(cs, k, j + 1, depth + 1)
  ELSE IF cs[j].c = matching_closing_char(cs[k].c)
  THEN IF depth = 0 THEN Some(Pos(cs[j].x, cs[j].y))
       ELSE PartnerAfter(cs, k, j + 1, depth - 1)
  ELSE PartnerAfter(cs, k, j + 1, depth)

\* The partner of the bracket at position pos of document ls.
PartnerOf(ls, pos) ==
  LET cs == DocChars(ls, 0)
      k == DocIndex(ls, pos)
  IN IF cs[k].c \in ClosingChars THEN PartnerBefore(cs, k, k - 1, 0)
     ELSE PartnerAfter(cs, k, k + 1, 0)

\* The cursor is in the document, right after a character of the set chars.
CursorAfter(chars) ==
  /\ ValidPosition(lines, cursor_index)
  /\ cursor_index.x > 0
  /\ At(At(lines, cursor_index.y), cursor_index.x - 1) \in chars

\* The position of the bracket left of the cursor.
BracketAtCursor == Pos(cursor_index.x - 1, cursor_index.y)

\* The lines the frame that begins shows: <<first, last>>, the lines from
\* first to last - 1.  The first one is the line at the scroll offset, and the
\* viewport holds text_editor_viewport_height / line_height lines.
FrameWindow ==
  LET first == scroll_offset.y \div line_height
  IN <<first, Min(first + text_editor_viewport_height \div line_height,
                  Len(lines))>>

\* The position of the closing bracket the matcher reports: the cell holds
\* the column after it.
ReportedClosing(cell) ==
  IF IsSome(cell) THEN Some(Pos(Unwrap(cell).x - 1, Unwrap(cell).y)) ELSE None

\* C15: the cursor has been moved right after a closing bracket (the matcher
\* holds that bracket and seeks its opening one) and the bracket's partner is
\* on a line of the visible window: the frame's search records the opening
\* bracket at the partner's position and keeps the closing one at the
\* bracket left of the cursor.  This holds as well when the window reaches
\* the last line of the document.
C15_BackwardSearch ==
  [][(lastEvent' = "ui_begin" /\ ~fault' /\ CursorAfter(ClosingChars)
        /\ closing_char_index = Some(cursor_index) /\ opening_char = None
        /\ IsSome(PartnerOf(lines, BracketAtCursor))
        /\ Unwrap(PartnerOf(lines, BracketAtCursor)).y >= FrameWindow[1]
        /\ Unwrap(PartnerOf(lines, BracketAtCursor)).y < FrameWindow[2])
     => /\ opening_char_index' = PartnerOf(lines, BracketAtCursor)
        /\ ReportedClosing(closing_char_index') = Some(BracketAtCursor)]_vars

\* C16: the cursor is right after an opening bracket on a line of the visible
\* window (the matcher holds that bracket and no closing one), and the
\* bracket's partner is on a line beyond the window, or there is none: the
\* frame's search records no closing bracket.
C16_BracketBound ==
  [][(lastEvent' = "ui_begin" /\ ~fault' /\ CursorAfter(OpeningChars)
        /\ opening_char_index = Some(BracketAtCursor) /\ closing_char = None
        /\ cursor_index.y >= FrameWindow[1] /\ cursor_index.y < FrameWindow[2]
        /\ (IsSome(PartnerOf(lines, BracketAtCursor))
              => Unwrap(PartnerOf(lines, BracketAtCursor)).y >= FrameWindow[2]))
     => /\ closing_char' = None /\ closing_char_index' = None
        /\ opening_char_index' = Some(BracketAtCursor)]_vars

\* A frame has searched with the cursor after the "{" of line 0, the partner
\* being the "}" of line 3, below the window of lines 0 to 2.
C16_Witness ==
  /\ ~fault /\ lastEvent = "ui_begin"
  /\ lines = << <<"{">>, <<"{">>, <<"}">>, <<"}">> >>
  /\ scroll_offset.y = 0
  /\ cursor_index = Pos(1, 0)
  /\ opening_char_index = Some(Pos(0, 0))
  /\ closing_char_index = None

\* C17: the cursor is right after an opening bracket (the matcher holds that
\* bracket and seeks its closing one) and the bracket's nesting partner is on
\* a line of the visible window: the frame's search records as closing
\* bracket the partner, the first closing bracket that brings the counter
\* back to zero, and no bracket of a nested pair.
C17_ForwardSearch ==
  [][(lastEvent' = "ui_begin" /\ ~fault' /\ CursorAfter(OpeningChars)
        /\ opening_char_index = Some(BracketAtCursor) /\ closing_char = None
        /\ IsSome(PartnerOf(lines, BracketAtCursor))
        /\ Unwrap(PartnerOf(lines, BracketAtCursor)).y >= FrameWindow[1]
        /\ Unwrap(PartnerOf(lines, BracketAtCursor)).y < FrameWindow[2])
     => /\ ReportedClosing(closing_char_index') = PartnerOf(lines, BracketAtCursor)
        /\ opening_char_index' = Some(BracketAtCursor)]_vars

\* C18: whenever the cursor is at column 0, or the character left of it is
\* none of { ( [ } ) ], the matcher is idle: no opening and no closing bracket
\* is recorded.  This holds after an undo that moves the cursor as well.
C18_IdleWithoutBracket ==
  (~fault /\ ~CursorAfter(OpeningChars \cup ClosingChars))
  => /\ opening_char = None /\ opening_char_index = None
     /\ closing_char = None /\ closing_char_index = None

\* ------------------------------------------------------- history, claims
\* Ctrl+Z pressed k times in a row on editor s.
RECURSIVE UndoTimes(_, _)
UndoTimes(s, k) == IF k = 0 THEN s ELSE UndoTimes(Undo(s), k - 1)

LastActivity == Unwrap(unsaved_stated).last_activity_at

\* C22: a pending batch does not stay pending.  The tick that ends a frame
\* InactivityPeriod or more after the batch's last activity pushes exactly
\* one HistoryEntry and leaves no pending batch; an earlier tick leaves the
\* batch and the history alone; and with frames going on, a batch whose
\* inactivity period ends while frames still run is eventually flushed
\* (or, an action being recorded later, replaced by a batch whose period ends
\* after the frames have stopped).
C22_DebounceLiveness ==
  /\ [][(lastEvent' = "ui_end" /\ ~fault' /\ IsSome(unsaved_stated))
        => IF time - LastActivity >= InactivityPeriod
           THEN Len(history') = Len(history) + 1 /\ unsaved_stated' = None
           ELSE UNCHANGED <<history, unsaved_stated>>]_vars
  /\ (IsSome(unsaved_stated) /\ LastActivity + InactivityPeriod <= MaxLiveTime)
       ~> (\/ unsaved_stated = None
           \/ fault
           \/ LastActivity + InactivityPeriod > MaxLiveTime)

\* A frame's end has flushed a batch on its own: no event in that frame, the
\* batch's record says that its entry was pushed by a tick.
C22_Witness ==
  /\ ~fault /\ lastEvent = "ui_end"
  /\ unsaved_stated = None
  /\ Len(history) = 1
  /\ entryStart[1].tick
  /\ eventsLeft = MaxLiveEvents - 1

\* ------------------------------------------------- visible window, claims
\* C23: when a frame begins on a document of at least one line with a
\* vertical scroll offset from 0 to lines.len() * line_height, the first
\* visible line that ui() computes is a line of the document, from 0 to
\* lines.len() - 1.
C23_FirstVisibleLine ==
  [][(lastEvent' = "ui_begin" /\ ~fault' /\ Len(lines) >= 1
        /\ scroll_offset.y >= 0
        /\ scroll_offset.y <= Len(lines) * line_height)
     => (/\ first_line_index(Ed) >= 0
         /\ first_line_index(Ed) <= Len(lines) - 1)]_vars

\* C24: a pointer position y pixels below the viewport's top is on line
\* floor((y + scroll_offset.y) / line_height), whatever the scroll offset, a
\* multiple of line_height or not.  The start of a drag stores the line as
\* y_to_index gives it.
C24_PixelToLine ==
  [][(lastEvent' = "on_drag_start" /\ ~fault')
     => Unwrap(start_dragged_index').y
          = (Unwrap(interact_pos').y + scroll_offset.y) \div line_height]_vars

\* C24, amended: the pointer position y pixels below the viewport's top is on
\* line floor(y / line_height) + floor(scroll_offset.y / line_height): the
\* row of the viewport, counted from the first visible line.  This is
\* floor((y + scroll_offset.y) / line_height) when the scroll offset is a
\* multiple of line_height.
C24_PixelToLineByRows ==
  [][(lastEvent' = "on_drag_start" /\ ~fault')
     => Unwrap(start_dragged_index').y
          = (Unwrap(interact_pos').y \div line_height)
            + (scroll_offset.y \div line_height)]_vars

\* A drag has started one pixel below the viewport's top, the area being
\* scrolled by one pixel: on line 0, the line the viewport's first row shows.
C24_Witness ==
  /\ ~fault /\ lastEvent = "on_drag_start"
  /\ scroll_offset.y = 1
  /\ interact_pos = Some(Pos(0, 1))
  /\ start_dragged_index = Some(Pos(0, 0))

\* The first line of the viewport at vertical offset offset_y, and the number
\* of lines the viewport holds.
FirstVisibleLine(offset_y) == offset_y \div line_height
ViewportLines == text_editor_viewport_height \div line_height

\* The keys that move the cursor and arm the scroll into view.
MovingKeys == {"ArrowUp", "ArrowDown", "ArrowLeft", "ArrowRight", "Enter"}

\* The cursor of editor s is on one of the lines of the viewport.
CursorInViewport(s) ==
  /\ FirstVisibleLine(s.scroll_offset.y) <= s.cursor_index.y
  /\ s.cursor_index.y < FirstVisibleLine(s.scroll_offset.y) + ViewportLines

\* C25: an arrow key or Enter has moved the cursor to a position of the
\* document: once the next frame has adjusted the scroll (the scroll area
\* having given back the offset it was given), the cursor's line is one of
\* the lines of the viewport, whether the cursor went below the viewport or
\* above it, to the line just above the first visible one as well.
C25_CursorScrolledIntoView ==
  [][(lastEvent' \in MovingKeys /\ ~fault' /\ cursor_index' # cursor_index
        /\ ValidPosition(lines', cursor_index'))
     => (\/ ui_begin(Ed').fault
         \/ CursorInViewport(ui_begin(Ed')))]_vars

PointerHandlers == {"on_click", "on_double_click", "on_drag_start", "on_drag"}

\* C26: the pointer never arms the scroll into view.  A click, a double
\* click, the start of a drag and a drag leave has_pressed_arrow_key unset
\* and the scroll offsets as they are, and the frame that follows them (the
\* scroll area having given back the offset it was given) leaves the scroll
\* offsets as they are too, wherever the cursor went; has_pressed_arrow_key is
\* only ever set by an arrow key or by Enter.
C26_PointerDoesNotScroll ==
  [][/\ (lastEvent' \in PointerHandlers /\ ~fault')
        => (/\ ~has_pressed_arrow_key'
            /\ scroll_offset' = scroll_offset
            /\ ~ui_begin(Ed').fault
               => ui_begin(Ed').scroll_offset = scroll_offset)
     /\ (has_pressed_arrow_key' /\ ~has_pressed_arrow_key)
        => lastEvent' \in MovingKeys]_vars

\* A drag has taken the cursor to line 3 of four, below the viewport that
\* shows lines 0 to 2; the scroll into view is not armed.
C26_Witness ==
  /\ ~fault /\ lastEvent = "on_drag"
  /\ scroll_offset.y = 0
  /\ cursor_index.y = ViewportLines
  /\ ~has_pressed_arrow_key

\* ---------------------------------------------------------- cursor, claims
\* The line ArrowDown or ArrowUp goes to from line l.
NeighbourLine(key, l) == IF key = "ArrowDown" THEN l + 1 ELSE l - 1

\* C27: ArrowDown and ArrowUp, from a cursor (l, c) of the document, go to the
\* neighbouring line l2 when the document has it, at column min(c, length
\* of line l2): the column the cursor came from is not kept for later.
\* ArrowUp on line 0 and ArrowDown on the last line leave the cursor where
\* it is.
C27_VerticalMove ==
  [][(lastEvent' \in {"ArrowDown", "ArrowUp"} /\ ~fault'
        /\ ValidPosition(lines, cursor_index))
     => LET l2 == NeighbourLine(lastEvent', cursor_index.y)
        IN IF 0 <= l2 /\ l2 < Len(lines)
           THEN cursor_index'
                  = Pos(Min(cursor_index.x, CharCount(At(lines, l2))), l2)
           ELSE cursor_index' = cursor_index]_vars

\* ------------------------------------------------------- painting, claims
\* C28: every frame paints no bracket highlight or two: none while only one
\* bracket of the pair is known, its partner not being found in the window.
C28_BracketRectangles ==
  [][(lastEvent' = "ui_begin" /\ ~fault')
     => Len(ui_bracket_shapes(Ed)) \in {0, 2}]_vars

\* Position cell (an Option) holds no position, or one whose column is at
\* most the number of characters of its line in document ls.
CharacterColumn(ls, cell) ==
  (IsSome(cell) /\ Unwrap(cell).y < Len(ls))
  => Unwrap(cell).x <= CharCount(At(ls, Unwrap(cell).y))

\* C29: columns are character indices.  An arrow key, with Shift or without,
\* pressed with the cursor in the document (and the line count up to date)
\* leaves the cursor, the selection's start and the selection's end at
\* columns of at most the number of characters of their lines, on lines with
\* characters of several bytes too: ArrowRight at the end of such a line
\* leaves the cursor at the line's number of characters.
C29_CharacterIndices ==
  [][(lastEvent' \in {"ArrowRight", "ArrowLeft", "ArrowUp", "ArrowDown"}
        /\ ~fault' /\ ValidPosition(lines, cursor_index)
        /\ lines_count = Len(lines))
     => (/\ CharacterColumn(lines', Some(cursor_index'))
         /\ CharacterColumn(lines', selection_start_index')
         /\ CharacterColumn(lines', selection_end_index'))]_vars

\* C30: the entry a frame's end pushes for a batch of recorded actions is an
\* AddText when the document before the batch has at most as many lines as
\* the document at the flush (a net insertion, such as a batch with an Enter
\* that splits a line), and a RemoveText when it has more (lines were
\* removed).  The batch changes lines of the entry's range only, so the
\* two snapshots of the range compare as the two documents do.
C30_FlushClassification ==
  [][(lastEvent' = "ui_end" /\ ~fault' /\ Len(history') > Len(history)
        /\ Unwrap(batchStart).recorded)
     => history'[Len(history')].kind
          = (IF Len(Unwrap(batchStart).lines) <= Len(lines)
             THEN "AddText" ELSE "RemoveText")]_vars

\* The lines of document ls from line i on (none when ls has no line i).
LinesFrom(ls, i) == SubSeq(ls, Min(i, Len(ls)) + 1, Len(ls))
\* Whether sequence t ends sequence ls.
IsSuffix(t, ls) ==
  Len(t) <= Len(ls) /\ t = SubSeq(ls, Len(ls) - Len(t) + 1, Len(ls))

\* C31: the range [start_index, end_index] of the entry a frame's end pushes
\* for a batch of recorded actions covers every line the batch changed, in
\* the numbering of the document at the flush: the lines above start_index
\* are the lines the document had there before the batch, and the lines
\* below end_index are the last lines of the document before the batch.  The
\* line that took in the next one when Backspace at column 0 or Delete at a
\* line's end removed a line is a changed line.
C31_FlushRangeCoversChanges ==
  [][(lastEvent' = "ui_end" /\ ~fault' /\ Len(history') > Len(history)
        /\ Unwrap(batchStart).recorded)
     => LET entry == history'[Len(history')]
            before == Unwrap(batchStart).lines
        IN /\ SubSeq(lines, 1, Min(entry.start_index, Len(lines)))
                = SubSeq(before, 1, Min(entry.start_index, Len(lines)))
           /\ IsSuffix(LinesFrom(lines, entry.end_index + 1), before)]_vars

\* Every action of the batch is the removal of one character.
OnlyRemoveChar(actions) ==
  /\ actions # <<>>
  /\ \A k \in 1..Len(actions) : actions[k].kind = "RemoveChar"

\* C32: a batch that removed characters, with Backspace (the character left
\* of the cursor) or with Delete (the character at the cursor), is flushed by
\* a frame's end; the undo of the entry puts every removed character back at
\* the index it was removed from: the document is the one before the batch.
C32_RemovedCharRestored ==
  [][(lastEvent' = "ui_end" /\ ~fault' /\ Len(history') > Len(history)
        /\ Unwrap(batchStart).recorded
        /\ OnlyRemoveChar(Unwrap(unsaved_stated).actions))
     => LET r == Undo(Ed')
        IN ~r.fault => r.lines = Unwrap(batchStart).lines]_vars

\* C33: without selection, Enter with the cursor at (l, c) cuts line l down
\* to its first c characters, inserts the rest as a new line l + 1 and leaves
\* the cursor at (l + 1, 0), on every line l, the last one included.
C33_EnterSplitsLine ==
  [][(lastEvent' = "Enter" /\ ~fault' /\ ~has_selection(Ed)
        /\ ValidPosition(lines, cursor_index))
     => LET l == cursor_index.y
            c == cursor_index.x
        IN /\ lines' = VecInsert(SetAt(lines, l, Take(At(lines, l), c)),
                                  l + 1, Drop(At(lines, l), c))
           /\ cursor_index' = Pos(0, l + 1)]_vars

\* ----------------------------------------------------------- pointer, claims
\* The position (column, line) the pixel position p maps to in editor s.
PixelIndex(s, p) == Pos(x_to_index(s, p.x), y_to_index(s, p.y))

\* C34: a click on a pixel position that maps to (l, c), with l a line of the
\* document and c at most the length of line l, puts the cursor at (l, c),
\* wherever the cursor was before (on a line shorter than c as well), and
\* clears the selection.
C34_ClickPlacesCursor ==
  [][(lastEvent' = "on_click" /\ ~fault'
        /\ ValidPosition(lines, PixelIndex(Ed, Unwrap(interact_pos'))))
     => (/\ cursor_index' = PixelIndex(Ed, Unwrap(interact_pos'))
         /\ SelectionCleared(Ed)')]_vars

\* C35: whenever a selection is present, its start and its end are positions
\* of the document: on a line of the document, at most at that line's length
\* in characters.  This holds after an undo that changes the number of lines
\* as well.
C35_SelectionWithinDocument ==
  (~fault /\ has_selection(Ed))
  => /\ ValidPosition(lines, Unwrap(selection_start_index))
     /\ ValidPosition(lines, Unwrap(selection_end_index))

\* The character at position pos of document ls, None when there is none.
CharAt(ls, pos) ==
  IF pos.y >= 0 /\ pos.y < Len(ls) /\ pos.x >= 0 /\ pos.x < Len(At(ls, pos.y))
  THEN Some(At(At(ls, pos.y), pos.x)) ELSE None

\* C36: whenever an opening and a closing bracket position are both recorded,
\* the document holds an opening bracket at the recorded opening position,
\* the closing bracket of the same type at the recorded closing position, and
\* each is the other's nesting partner.  This holds after the user has
\* scrolled during an unfinished search and after a Delete that edits the
\* document without moving the cursor as well.
C36_RecordedPairIsAPair ==
  (~fault /\ IsSome(opening_char_index) /\ IsSome(closing_char_index))
  => LET o == Unwrap(opening_char_index)
         c == Unwrap(ReportedClosing(closing_char_index))
     IN /\ IsSome(CharAt(lines, o)) /\ IsSome(CharAt(lines, c))
        /\ Unwrap(CharAt(lines, o)) \in OpeningChars
        /\ Unwrap(CharAt(lines, c)) = matching_closing_char(Unwrap(CharAt(lines, o)))
        /\ PartnerOf(lines, o) = Some(c)
        /\ PartnerOf(lines, c) = Some(o)

\* ------------------------------------------------- history, further claims
\* The handler of a recording key on editor s at time now.
RecordingHandler(s, event, text, now) ==
  CASE event = "Text" -> OnText(s, now, text)
    [] event = "Backspace" -> OnBackspace(s, now)
    [] event = "Delete" -> OnDelete(s, now)
    [] OTHER -> OnEnter(s, now)

\* C37: an entry is built from the document as it is once every action of
\* the batch has been applied.  Stated for the flush that the recording of an
\* action triggers, InactivityPeriod or more after the batch's last activity:
\* the entry pushed is the one a flush builds once the key has been handled
\* in full (the key handled as at the batch's last activity, so that the
\* recording does not flush, and the batch flushed afterwards).
C37_FlushAfterMutation ==
  [][(lastEvent' \in RecordingEvents /\ ~fault' /\ ~has_selection(Ed)
        /\ Len(history') > Len(history))
     => LET applied == RecordingHandler(Ed, lastEvent', lastText', LastActivity)
            flushed == flush_unsaved_state(applied, time')
        IN (~applied.fault /\ ~flushed.ed.fault)
           => (/\ IsSome(flushed.state)
               /\ history'[Len(history')] = Unwrap(flushed.state))]_vars

\* C38: two actions recorded InactivityPeriod or more apart are never in the
\* same HistoryEntry, with or without a frame's end in between.  When a key
\* records an action InactivityPeriod or more after the pending batch's last
\* activity, the earlier batch is closed first: the entry pushed is the one a
\* flush of the earlier batch gives, and the new action is the only one of a
\* new pending batch.
C38_IdleGapSeparatesEntries ==
  [][(lastEvent' \in RecordingEvents /\ ~fault' /\ ~has_selection(Ed)
        /\ IsSome(unsaved_stated)
        /\ time' - LastActivity >= InactivityPeriod
        /\ PendingActions(RecordingHandler(Ed, lastEvent', lastText',
                                            LastActivity).unsaved_stated)
             > PendingActions(unsaved_stated))
     => LET earlier == flush_unsaved_state(Ed, time')
        IN IsSome(earlier.state)
           => (/\ history' = Append(history, Unwrap(earlier.state))
               /\ PendingActions(unsaved_stated') = 1)]_vars

\* The entries of history are typing bursts, each one flushed on its own: each
\* batch held insertions of one character typed without selection, each was
\* flushed by a frame's end, each started from the document the one before
\* had left, and the document is as the last one left it.
TypingBursts ==
  /\ history # <<>> /\ unsaved_stated = None
  /\ \A i \in 1..Len(entryStart) :
        /\ entryStart[i].plain /\ entryStart[i].tick
        /\ entryStart[i].before # entryStart[i].after
        /\ i > 1 => entryStart[i].before = entryStart[i - 1].after
  /\ lines = TopStart.after

\* C39: with k >= 1 typing bursts in the history, each in its own entry, k
\* undos in a row revert the bursts one by one, the last one first (j undos
\* leave the document as it was before the j-th burst from the end), give
\* back the document before the first burst and leave the history empty.
\* The Ctrl+Z pressed in such a state is the first of these undos.
C39_MultiStepUndo ==
  [][(lastEvent' = "CtrlZ" /\ ~fault' /\ TypingBursts)
     => LET k == Len(history)
        IN /\ \A j \in 1..k :
                LET r == UndoTimes(Ed, j)
                IN /\ ~r.fault
                   /\ r.lines = entryStart[k - j + 1].before
                   /\ r.history = SubSeq(history, 1, k - j)
           /\ lines' = TopStart.before
           /\ history' = SubSeq(history, 1, k - 1)]_vars
====
